---- MODULE Spec2Model ----
(***************************************************************************)
(* A model of app_rules.py: one run of the Streamlit script that reads a   *)
(* products table and a rules table, parses the rules (preprocess_rules)   *)
(* and classifies every product title (classify_products).                 *)
(*                                                                         *)
(* Python values are records [type, val]:                                  *)
(*   str    val = the characters, each a one-character string              *)
(*   nan    a missing cell (pandas NaN), val = << >>                       *)
(*   int    a non-text, non-missing cell, val = << >>                      *)
(*   list   val = the items                                                *)
(*   tuple  val = the items                                                *)
(*   raise  an exception leaving a function, val = <<its class name>>      *)
(***************************************************************************)
EXTENDS Naturals, Sequences, FiniteSets

VARIABLES product_file, rules_file, product_df, rules_df, parsed_rules,
          titles, idx, results, progress, cache, last_call, output_df,
          shown, exception, pc

vars == <<product_file, rules_file, product_df, rules_df, parsed_rules,
          titles, idx, results, progress, cache, last_call, output_df,
          shown, exception, pc>>

(***************************************************************************)
(* Python values                                                           *)
(***************************************************************************)
Str(chars) == [type |-> "str", val |-> chars]

NaN == [type |-> "nan", val |-> << >>]

Num == [type |-> "int", val |-> << >>]

PyList(items) == [type |-> "list", val |-> items]

PyTuple(items) == [type |-> "tuple", val |-> items]

Raise(name) == [type |-> "raise", val |-> <<name>>]

None == [type |-> "none", val |-> << >>]

isna(v) == v.type = "nan"

isstr(v) == v.type = "str"

Raised(v) == v.type = "raise"

\* hash(v): a list is unhashable, a tuple is hashable when its items are.
RECURSIVE Hashable(_)
Hashable(v) ==
    CASE v.type = "list" -> FALSE
      [] v.type = "tuple" -> \A i \in 1..Len(v.val) : Hashable(v.val[i])
      [] OTHER -> TRUE

(***************************************************************************)
(* str methods, on sequences of characters                                 *)
(***************************************************************************)
LowerChar(c) ==
    CASE c = "A" -> "a"
      [] c = "B" -> "b"
      [] c = "D" -> "d"
      [] c = "N" -> "n"
      [] c = "X" -> "x"
      [] c = "Y" -> "y"
      [] OTHER -> c

\* s.lower()
lower(s) == [i \in 1..Len(s) |-> LowerChar(s[i])]

\* sub occurs in s at position i
OccursAt(s, sub, i) ==
    /\ i >= 1
    /\ i + Len(sub) - 1 <= Len(s)
    /\ \A k \in 1..Len(sub) : s[i + k - 1] = sub[k]

\* sub in s
In(sub, s) == \E i \in 1..(Len(s) + 1) : OccursAt(s, sub, i)

\* s.find(sub) + 1: the first position of sub in s, 0 when there is none
find(s, sub) ==
    IF In(sub, s)
    THEN CHOOSE i \in 1..(Len(s) + 1) :
            /\ OccursAt(s, sub, i)
            /\ \A j \in 1..(i - 1) : ~OccursAt(s, sub, j)
    ELSE 0

\* s.replace(old, new), old not empty: leftmost, non-overlapping
RECURSIVE replace(_, _, _)
replace(s, old, new) ==
    LET j == find(s, old) IN
    IF j = 0 THEN s
    ELSE SubSeq(s, 1, j - 1) \o new
         \o replace(SubSeq(s, j + Len(old), Len(s)), old, new)

\* s.split(sep), sep not empty
RECURSIVE split(_, _)
split(s, sep) ==
    LET j == find(s, sep) IN
    IF j = 0 THEN <<s>>
    ELSE <<SubSeq(s, 1, j - 1)>> \o split(SubSeq(s, j + Len(sep), Len(s)), sep)

\* s.strip()
RECURSIVE strip(_)
strip(s) ==
    IF s = << >> THEN s
    ELSE IF s[1] = " " THEN strip(Tail(s))
    ELSE IF s[Len(s)] = " " THEN strip(SubSeq(s, 1, Len(s) - 1))
    ELSE s

\* sep.join(parts), parts a sequence of character sequences
RECURSIVE join(_, _)
join(sep, parts) ==
    IF parts = << >> THEN << >>
    ELSE IF Len(parts) = 1 THEN parts[1]
    ELSE parts[1] \o sep \o join(sep, Tail(parts))

AND_WORD == <<" ", "a", "n", "d", " ">>

COMMA == <<",">>

COMMA_SPACE == <<",", " ">>

(***************************************************************************)
(* Rule parser                                                             *)
(***************************************************************************)
\* [t.strip().lower() for t in parts if t.strip()]
RECURSIVE tokens(_)
tokens(parts) ==
    IF parts = << >> THEN << >>
    ELSE IF strip(parts[1]) # << >>
         THEN <<Str(lower(strip(parts[1])))>> \o tokens(Tail(parts))
         ELSE tokens(Tail(parts))

clean_and_split(text) ==
    IF isna(text) THEN PyList(<< >>)
    ELSE IF ~isstr(text) THEN PyList(<< >>)
    ELSE PyList(tokens(split(replace(text.val, AND_WORD, COMMA), COMMA)))

parse_include(include_text) ==
    IF isna(include_text) THEN PyList(<< >>)
    ELSE IF ~isstr(include_text) THEN Raise("AttributeError")
    ELSE LET t == lower(include_text.val) IN
         IF In(AND_WORD, t)
         THEN LET parts == split(t, AND_WORD) IN
              PyList([i \in 1..Len(parts) |-> clean_and_split(Str(parts[i]))])
         ELSE PyList(<<clean_and_split(Str(t))>>)

\* The loop of preprocess_rules over the rows from position k on; acc is
\* parsed_rules so far.  An exception of parse_include leaves the function.
RECURSIVE preprocess_loop(_, _, _)
preprocess_loop(rows, k, acc) ==
    IF k > Len(rows) THEN PyList(acc)
    ELSE LET include == parse_include(rows[k]["Include"])
             exclude == clean_and_split(rows[k]["Exclude"])
             label   == rows[k]["Rule"]
         IN IF Raised(include) THEN include
            ELSE preprocess_loop(rows, k + 1,
                                 Append(acc, PyTuple(<<include, exclude, label>>)))

preprocess_rules(df) == preprocess_loop(df.rows, 1, << >>)

(***************************************************************************)
(* Matching                                                                *)
(***************************************************************************)
\* any(word in title for word in words)
any_in(words, title) ==
    \E i \in 1..Len(words.val) : In(words.val[i].val, title.val)

\* The for loop of matches_rule over the AND-blocks from position k on.
RECURSIVE include_loop(_, _, _)
include_loop(title, include, k) ==
    IF k > Len(include.val) THEN TRUE
    ELSE IF ~any_in(include.val[k], title) THEN FALSE
    ELSE include_loop(title, include, k + 1)

\* The function that @lru_cache decorates.
matches_rule_wrapped(title, include, exclude) ==
    IF ~include_loop(title, include, 1) THEN FALSE
    ELSE IF any_in(exclude, title) THEN FALSE
    ELSE TRUE

CacheKey(title, include, exclude) == PyTuple(<<title, include, exclude>>)

\* A call of the name matches_rule, which is the lru_cache wrapper: the key is
\* hashed first (TypeError for an unhashable argument), a hit returns the
\* stored value, a miss calls the function and stores its value.
matches_rule(c, title, include, exclude) ==
    LET key == CacheKey(title, include, exclude) IN
    IF ~Hashable(key)
    THEN [raised |-> "TypeError", value |-> FALSE, cache |-> c]
    ELSE IF \E e \in c : e.key = key
    THEN [raised |-> "", value |-> (CHOOSE e \in c : e.key = key).value,
          cache |-> c]
    ELSE LET v == matches_rule_wrapped(title, include, exclude) IN
         [raised |-> "", value |-> v,
          cache |-> c \cup {[key |-> key, value |-> v]}]

NoCall == [called |-> FALSE, title |-> None, include |-> None,
           exclude |-> None, raised |-> "", value |-> FALSE, hit |-> FALSE]

\* The inner loop of classify_products for one title, over the parsed rules
\* from position k on: c is the cache, matches the labels so far, call the
\* last call of matches_rule made.
RECURSIVE rules_loop(_, _, _, _, _, _)
rules_loop(c, title, rules, k, matches, call) ==
    IF k > Len(rules.val)
    THEN [raised |-> "", cache |-> c, matches |-> matches, call |-> call]
    ELSE LET include == rules.val[k].val[1]
             exclude == rules.val[k].val[2]
             label   == rules.val[k].val[3]
             r       == matches_rule(c, title, include, exclude)
             this    == [called |-> TRUE, title |-> title, include |-> include,
                         exclude |-> exclude, raised |-> r.raised,
                         value |-> r.value,
                         hit |-> (r.raised = "" /\ r.cache = c)]
         IN IF r.raised # ""
            THEN [raised |-> r.raised, cache |-> r.cache, matches |-> matches,
                  call |-> this]
            ELSE rules_loop(r.cache, title, rules, k + 1,
                            IF r.value THEN Append(matches, label) ELSE matches,
                            this)

\* ', '.join(matches): TypeError when an item is not a str
join_labels(matches) ==
    IF \E i \in 1..Len(matches) : ~isstr(matches[i])
    THEN Raise("TypeError")
    ELSE Str(join(COMMA_SPACE, [i \in 1..Len(matches) |-> matches[i].val]))

\* product_df['TITLE'].str.lower().fillna(''): the .str accessor is refused
\* (AttributeError) on a column that holds rows and no text; a cell that is
\* not text becomes missing under .str.lower() and '' under fillna.
title_column(df) ==
    IF df.rows # << >> /\ \A i \in 1..Len(df.rows) : ~isstr(df.rows[i]["TITLE"])
    THEN Raise("AttributeError")
    ELSE PyList([i \in 1..Len(df.rows) |->
                   IF isstr(df.rows[i]["TITLE"])
                   THEN Str(lower(df.rows[i]["TITLE"].val))
                   ELSE Str(<< >>)])

\* idx % 100 == 0 or idx == len(titles) - 1
ProgressEvery == 100

\* The update at the last index forgotten.
progress_due_no_last(i, n) == i % ProgressEvery = 0

progress_due(i, n) == i % ProgressEvery = 0 \/ i + 1 = n

\* A new table of the results alone, the other columns lost.
with_column_only(df, name, values) ==
    [columns |-> {name},
     rows |-> [i \in 1..Len(df.rows) |-> [c \in {name} |-> values[i]]]]

\* product_df['mapped_classifications'] = results
with_column(df, name, values) ==
    [columns |-> df.columns \cup {name},
     rows |-> [i \in 1..Len(df.rows) |->
                 [c \in df.columns \cup {name} |->
                    IF c = name THEN values[i] ELSE df.rows[i][c]]]]

(***************************************************************************)
(* Uploaded files.  A file is None (nothing uploaded) or                   *)
(* [type |-> "file", ok, df]: ok says that pd.read_excel finds the sheet   *)
(* and parses it, df is the table it then returns.  A table is             *)
(* [columns, rows], each row a function from the columns to cells.         *)
(***************************************************************************)
MaxProducts == 2

MaxRules == 2

LongExtra == 2

File(ok, df) == [type |-> "file", ok |-> ok, df |-> df]

NoTable == [columns |-> {}, rows |-> << >>]

SeqsUpTo(S, n) == UNION {[1..k -> S] : k \in 0..n}

TitleCells ==
    { Str(<<"X", "y">>), Str(<<"b", " ", "a">>), Str(<<"z">>), NaN, Num }

ProductColumns == {"TITLE", "SKU"}

ProductRows == {[c \in ProductColumns |-> IF c = "TITLE" THEN t ELSE Num] :
                   t \in TitleCells}

\* Tables long enough for an index divisible by ProgressEvery after the first.
LongProductTables ==
    {[columns |-> ProductColumns,
      rows |-> [i \in 1..n |-> [c \in ProductColumns |->
                                  IF c = "TITLE" THEN Str(<<"x">>) ELSE Num]]] :
        n \in ProgressEvery..(ProgressEvery + LongExtra)}

ProductTables ==
    {[columns |-> ProductColumns, rows |-> r] :
        r \in SeqsUpTo(ProductRows, MaxProducts)}
    \cup LongProductTables

RuleColumns == {"Rule", "Include", "Exclude"}

RuleRow(include, exclude, label) ==
    [c \in RuleColumns |->
        IF c = "Include" THEN include ELSE IF c = "Exclude" THEN exclude ELSE label]

L1 == Str(<<"L", "1">>)

L2 == Str(<<"L", "2">>)

RuleRows ==
    { RuleRow(Str(<<"a", ",", " ", "b">>), NaN, L1),
      RuleRow(Str(<<"a", " ", "a", "n", "d", " ", "b">>), Str(<< >>), L2),
      RuleRow(Str(<<"x">>), Str(<<"y", ",", " ", "z">>), L1),
      RuleRow(Str(<<"X">>), Str(<<"y", " ", "a", "n", "d", " ", "z">>), L2),
      RuleRow(NaN, Str(<<"z">>), L1),
      RuleRow(Str(<< >>), NaN, L2),
      RuleRow(Str(<<" ", ",">>), Num, L1),
      RuleRow(Num, NaN, NaN) }

RuleTables ==
    {[columns |-> RuleColumns, rows |-> r] : r \in SeqsUpTo(RuleRows, MaxRules)}

\* Tables that lack a required column, with no row or one row.
ShortTables(columns) ==
    {[columns |-> columns, rows |-> r] :
        r \in SeqsUpTo({[c \in columns |-> Str(<<"x">>)]}, 1)}

BadProductTables == ShortTables({"SKU"})

BadRuleTables ==
    UNION {ShortTables(cs) : cs \in (SUBSET RuleColumns) \ {RuleColumns}}

SmallProductTables ==
    {t \in ProductTables : Len(t.rows) <= 1} \cup BadProductTables

SmallRuleTables ==
    {t \in RuleTables : t.rows = << >>} \cup BadRuleTables

Files(tables) == {None} \cup {File(ok, t) : ok \in BOOLEAN, t \in tables}

(***************************************************************************)
(* The script                                                              *)
(***************************************************************************)
Uploaded(f) == f # None

\* An exception no handler catches ends the run: its class and the function
\* of the script it leaves.
NoException == [class |-> "", at |-> ""]

Uncaught(class, at) == [class |-> class, at |-> at]

Init ==
    /\ \/ /\ product_file \in {File(TRUE, t) : t \in ProductTables}
          /\ rules_file \in {File(TRUE, t) : t \in RuleTables}
       \/ /\ product_file \in Files(SmallProductTables)
          /\ rules_file \in Files(SmallRuleTables)
    /\ product_df = NoTable
    /\ rules_df = NoTable
    /\ parsed_rules = PyList(<< >>)
    /\ titles = PyList(<< >>)
    /\ idx = 0
    /\ results = << >>
    /\ progress = << >>
    /\ cache = {}
    /\ last_call = NoCall
    /\ output_df = NoTable
    /\ shown = << >>
    /\ exception = NoException
    /\ pc = "script"

Show(element) == shown' = Append(shown, element)

Frame == UNCHANGED <<product_file, rules_file>>

\* The check of the Exclude column forgotten.
missing_rule_columns_no_exclude(columns) ==
    "Rule" \notin columns \/ "Include" \notin columns

\* "Rule" not in columns or "Include" not in columns or "Exclude" not in columns
missing_rule_columns(columns) ==
    "Rule" \notin columns \/ "Include" \notin columns \/ "Exclude" \notin columns

\* "TITLE" not in product_df.columns
missing_title(columns) == "TITLE" \notin columns

\* Neither file is uploaded: the script ends without output.
NoFiles ==
    /\ pc = "script"
    /\ ~Uploaded(product_file) /\ ~Uploaded(rules_file)
    /\ pc' = "done"
    /\ Frame
    /\ UNCHANGED <<product_df, rules_df, parsed_rules, titles, idx, results,
                   progress, cache, last_call, output_df, shown, exception>>

\* One of the two files is uploaded: the warning.
OneFile ==
    /\ pc = "script"
    /\ Uploaded(product_file) # Uploaded(rules_file)
    /\ Show("warning")
    /\ pc' = "done"
    /\ Frame
    /\ UNCHANGED <<product_df, rules_df, parsed_rules, titles, idx, results,
                   progress, cache, last_call, output_df, exception>>

\* pd.read_excel raises on the products file, or then on the rules file:
\* except Exception shows the error and stops.
ReadError ==
    /\ pc = "script"
    /\ Uploaded(product_file) /\ Uploaded(rules_file)
    /\ ~product_file.ok \/ ~rules_file.ok
    /\ product_df' = IF product_file.ok THEN product_file.df ELSE product_df
    /\ Show("error_read")
    /\ pc' = "stopped"
    /\ Frame
    /\ UNCHANGED <<rules_df, parsed_rules, titles, idx, results, progress,
                   cache, last_call, output_df, exception>>

\* Both tables are read and the products table has no TITLE column.
MissingTitle ==
    /\ pc = "script"
    /\ Uploaded(product_file) /\ Uploaded(rules_file)
    /\ product_file.ok /\ rules_file.ok
    /\ missing_title(product_file.df.columns)
    /\ product_df' = product_file.df
    /\ rules_df' = rules_file.df
    /\ Show("error_title")
    /\ pc' = "stopped"
    /\ Frame
    /\ UNCHANGED <<parsed_rules, titles, idx, results, progress, cache,
                   last_call, output_df, exception>>

\* The rules table lacks Rule, Include or Exclude.
MissingRuleColumns ==
    /\ pc = "script"
    /\ Uploaded(product_file) /\ Uploaded(rules_file)
    /\ product_file.ok /\ rules_file.ok
    /\ ~missing_title(product_file.df.columns)
    /\ missing_rule_columns(rules_file.df.columns)
    /\ product_df' = product_file.df
    /\ rules_df' = rules_file.df
    /\ Show("error_rules")
    /\ pc' = "stopped"
    /\ Frame
    /\ UNCHANGED <<parsed_rules, titles, idx, results, progress, cache,
                   last_call, output_df, exception>>

\* Both tables are read and have their columns: st.success.
Loaded ==
    /\ pc = "script"
    /\ Uploaded(product_file) /\ Uploaded(rules_file)
    /\ product_file.ok /\ rules_file.ok
    /\ ~missing_title(product_file.df.columns)
    /\ ~missing_rule_columns(rules_file.df.columns)
    /\ product_df' = product_file.df
    /\ rules_df' = rules_file.df
    /\ Show("success")
    /\ pc' = "loaded"
    /\ Frame
    /\ UNCHANGED <<parsed_rules, titles, idx, results, progress, cache,
                   last_call, output_df, exception>>

\* parsed_rules = preprocess_rules(rules_df)
Preprocess ==
    /\ pc = "loaded"
    /\ LET r == preprocess_rules(rules_df) IN
       IF Raised(r)
       THEN /\ exception' = Uncaught(r.val[1], "preprocess_rules")
            /\ pc' = "crashed"
            /\ UNCHANGED parsed_rules
       ELSE /\ parsed_rules' = r
            /\ pc' = "parsed"
            /\ UNCHANGED exception
    /\ Frame
    /\ UNCHANGED <<product_df, rules_df, titles, idx, results, progress, cache,
                   last_call, output_df, shown>>

\* classify_products up to its loop: results, titles, st.progress(0).
ClassifyBegin ==
    /\ pc = "parsed"
    /\ LET t == title_column(product_df) IN
       IF Raised(t)
       THEN /\ exception' = Uncaught(t.val[1], "classify_products")
            /\ pc' = "crashed"
            /\ UNCHANGED <<titles, progress>>
       ELSE /\ titles' = t
            /\ progress' = <<<<0, 1>>>>
            /\ pc' = "loop"
            /\ UNCHANGED exception
    /\ results' = << >>
    /\ idx' = 0
    /\ Frame
    /\ UNCHANGED <<product_df, rules_df, parsed_rules, cache, last_call,
                   output_df, shown>>

\* One iteration of the loop over enumerate(titles).
ClassifyRow ==
    /\ pc = "loop"
    /\ idx < Len(titles.val)
    /\ LET r == rules_loop(cache, titles.val[idx + 1], parsed_rules, 1, << >>,
                           last_call)
           joined == join_labels(r.matches)
       IN /\ cache' = r.cache
          /\ last_call' = r.call
          /\ IF r.raised # ""
             THEN /\ exception' = Uncaught(r.raised, "classify_products")
                  /\ pc' = "crashed"
                  /\ UNCHANGED <<results, progress, idx>>
             ELSE IF Raised(joined)
             THEN /\ exception' = Uncaught(joined.val[1], "classify_products")
                  /\ pc' = "crashed"
                  /\ UNCHANGED <<results, progress, idx>>
             ELSE /\ results' = Append(results, joined)
                  /\ progress' = IF progress_due(idx, Len(titles.val))
                                 THEN Append(progress, <<idx + 1, Len(titles.val)>>)
                                 ELSE progress
                  /\ idx' = idx + 1
                  /\ UNCHANGED <<exception, pc>>
    /\ Frame
    /\ UNCHANGED <<product_df, rules_df, parsed_rules, titles, output_df, shown>>

\* After the loop: the new column, and output_df is the same table.
ClassifyEnd ==
    /\ pc = "loop"
    /\ idx = Len(titles.val)
    /\ product_df' = with_column(product_df, "mapped_classifications", results)
    /\ output_df' = product_df'
    /\ pc' = "classified"
    /\ Frame
    /\ UNCHANGED <<rules_df, parsed_rules, titles, idx, results, progress,
                   cache, last_call, shown, exception>>

\* st.subheader, st.dataframe(output_df)
Preview ==
    /\ pc = "classified"
    /\ Show("preview")
    /\ pc' = "previewed"
    /\ Frame
    /\ UNCHANGED <<product_df, rules_df, parsed_rules, titles, idx, results,
                   progress, cache, last_call, output_df, exception>>

\* output_df.to_csv and its download button
DownloadCsv ==
    /\ pc = "previewed"
    /\ Show("download_csv")
    /\ pc' = "csv"
    /\ Frame
    /\ UNCHANGED <<product_df, rules_df, parsed_rules, titles, idx, results,
                   progress, cache, last_call, output_df, exception>>

\* create_excel_download: the bytes and the download button, or, when
\* writing the workbook raises, st.error and None and no button.
DownloadExcel ==
    /\ pc = "csv"
    /\ \E written \in BOOLEAN :
          Show(IF written THEN "download_excel" ELSE "error_excel")
    /\ pc' = "done"
    /\ Frame
    /\ UNCHANGED <<product_df, rules_df, parsed_rules, titles, idx, results,
                   progress, cache, last_call, output_df, exception>>

Next ==
    \/ NoFiles
    \/ OneFile
    \/ ReadError
    \/ MissingTitle
    \/ MissingRuleColumns
    \/ Loaded
    \/ Preprocess
    \/ ClassifyBegin
    \/ ClassifyRow
    \/ ClassifyEnd
    \/ Preview
    \/ DownloadCsv
    \/ DownloadExcel

Spec == Init /\ [][Next]_vars

(***************************************************************************)
(* What the specification says of a rule and a title                       *)
(***************************************************************************)
\* The title contains a token of the group.
GroupHit(title, group) ==
    \E i \in 1..Len(group.val) : In(group.val[i].val, title.val)

\* Every AND-group has a token in the title and no exclude token is in it.
ContractMatch(title, include, exclude) ==
    /\ \A g \in 1..Len(include.val) : GroupHit(title, include.val[g])
    /\ ~GroupHit(title, exclude)

\* The labels of the rules from position k on that the contract matches.
RECURSIVE ContractLabels(_, _, _)
ContractLabels(title, rules, k) ==
    IF k > Len(rules.val) THEN << >>
    ELSE LET rule == rules.val[k].val
             rest == ContractLabels(title, rules, k + 1)
         IN IF ContractMatch(title, rule[1], rule[2])
            THEN <<rule[3].val>> \o rest
            ELSE rest

\* The run got as far as parsing the rules / as classify_products.
RulesParsed == pc \in {"parsed", "loop", "classified", "previewed", "csv"}
               \/ (pc = "done" /\ output_df # NoTable)
               \/ (pc = "crashed" /\ exception.at = "classify_products")

HasOutput == output_df # NoTable

\* The lowercased title of input row i, '' when the cell is not text.
LowerTitle(i) ==
    LET cell == product_file.df.rows[i]["TITLE"] IN
    IF isstr(cell) THEN Str(lower(cell.val)) ELSE Str(<< >>)

\* The function that matches_rule wraps computes the contract for every
\* parsed rule and every title of the products table (a supporting
\* invariant: what fails in C1, C3, C5 and C6 is the call through the cache).
WrappedMeetsContract ==
    RulesParsed =>
        \A k \in 1..Len(parsed_rules.val) :
            \A i \in 1..Len(product_file.df.rows) :
                matches_rule_wrapped(LowerTitle(i), parsed_rules.val[k].val[1],
                                     parsed_rules.val[k].val[2])
                  = ContractMatch(LowerTitle(i), parsed_rules.val[k].val[1],
                                  parsed_rules.val[k].val[2])

(***************************************************************************)
(* Claims                                                                  *)
(***************************************************************************)

\* C1: every call matches_rule(title, include, exclude) that classification
\* makes for a parsed rule returns, and returns true exactly when every
\* AND-group of include has a token that is a substring of the title and no
\* token of exclude is a substring of the title.
C1_MatchesRuleIffContract ==
    last_call.called =>
        /\ last_call.raised = ""
        /\ last_call.value
             = ContractMatch(last_call.title, last_call.include, last_call.exclude)

\* C2: with the required columns present, neither preprocess_rules nor
\* classify_products raises: no run ends in an uncaught exception.
C2_NoErrorRaised == exception = NoException

\* C3: Include "a, b" parses to the one group {a, b} and Include "a and b"
\* to the two groups {a}, {b}; and, with an empty Exclude, the evaluation of
\* a rule with Include "a, b" returns true exactly when the title contains
\* "a" or "b", that of a rule with Include "a and b" exactly when it contains
\* both.
C3_IncludeOrAnd ==
    LET a == <<"a">>
        b == <<"b">>
        orRule  == parse_include(Str(<<"a", ",", " ", "b">>))
        andRule == parse_include(Str(<<"a", " ", "a", "n", "d", " ", "b">>))
    IN /\ orRule = PyList(<<PyList(<<Str(a), Str(b)>>)>>)
       /\ andRule = PyList(<<PyList(<<Str(a)>>), PyList(<<Str(b)>>)>>)
       /\ (last_call.called /\ last_call.exclude.val = << >>) =>
            /\ last_call.include = orRule =>
                 /\ last_call.raised = ""
                 /\ last_call.value
                      = (In(a, last_call.title.val) \/ In(b, last_call.title.val))
            /\ last_call.include = andRule =>
                 /\ last_call.raised = ""
                 /\ last_call.value
                      = (In(a, last_call.title.val) /\ In(b, last_call.title.val))

\* C4: a parsed rule whose Include cell is missing, empty or without tokens
\* matches (by the function that matches_rule wraps) every title of the
\* products table that contains none of the rule's exclude tokens.
C4_EmptyIncludeMatches ==
    RulesParsed =>
        \A k \in 1..Len(rules_df.rows) :
            clean_and_split(rules_df.rows[k]["Include"]).val = << >> =>
                \A i \in 1..Len(product_file.df.rows) :
                    ~GroupHit(LowerTitle(i), parsed_rules.val[k].val[2]) =>
                        matches_rule_wrapped(LowerTitle(i),
                                             parsed_rules.val[k].val[1],
                                             parsed_rules.val[k].val[2])

\* C5: the evaluation of a product against the rules ends with a value for
\* mapped_classifications, and in the output that value is the labels of the
\* rules matching its title, in rule order, repeated labels kept, joined
\* with ", " (the empty string when no rule matches or there is no rule).
C5_LabelsInRuleOrder ==
    /\ last_call.called => pc # "crashed"
    /\ HasOutput =>
         \A i \in 1..Len(product_file.df.rows) :
             output_df.rows[i]["mapped_classifications"]
               = Str(join(COMMA_SPACE, ContractLabels(LowerTitle(i), parsed_rules, 1)))

\* C6: Exclude "y and z" gives the same flat tokens as "y, z", and every
\* evaluation of a rule on a title that contains one of its exclude tokens
\* returns false (no match).
C6_ExcludeIsOr ==
    /\ clean_and_split(Str(<<"y", " ", "a", "n", "d", " ", "z">>))
         = PyList(<<Str(<<"y">>), Str(<<"z">>)>>)
    /\ clean_and_split(Str(<<"y", ",", " ", "z">>))
         = PyList(<<Str(<<"y">>), Str(<<"z">>)>>)
    /\ (last_call.called /\ GroupHit(last_call.title, last_call.exclude)) =>
         /\ last_call.raised = ""
         /\ last_call.value = FALSE

\* C7: when both files are uploaded and the products table lacks TITLE or the
\* rules table lacks Rule, Include or Exclude, the run never gets past the
\* upload handling: once it has left it, it is stopped with exactly one error
\* message shown, and there are no parsed rules, no titles, no results, no
\* progress bar, no output table, no preview and no download.
C7_ShapeErrorStops ==
    ( /\ product_file # None
      /\ rules_file # None
      /\ \/ "TITLE" \notin product_file.df.columns
         \/ ~({"Rule", "Include", "Exclude"} \subseteq rules_file.df.columns) )
    => /\ pc \in {"script", "stopped"}
       /\ pc = "stopped" =>
            /\ Len(shown) = 1
            /\ shown[1] \in {"error_title", "error_rules", "error_read"}
            /\ (product_file.ok /\ rules_file.ok) =>
                 shown[1] = IF "TITLE" \notin product_file.df.columns
                            THEN "error_title" ELSE "error_rules"
       /\ parsed_rules = PyList(<< >>)
       /\ titles = PyList(<< >>)
       /\ results = << >>
       /\ progress = << >>
       /\ output_df = NoTable
       /\ exception = NoException

\* C7 witness: a run stopped on a rules table of one row that lacks a column.
C7_Witness ==
    /\ pc = "stopped"
    /\ shown = <<"error_rules">>
    /\ Len(rules_file.df.rows) = 1
    /\ "Exclude" \notin rules_file.df.columns
    /\ "Include" \in rules_file.df.columns

\* C8: the cache has no effect: every call of matches_rule ends as the
\* function it wraps ends, returning that function's value.
C8_CacheHasNoEffect ==
    last_call.called =>
        /\ last_call.raised = ""
        /\ last_call.value
             = matches_rule_wrapped(last_call.title, last_call.include,
                                    last_call.exclude)

\* C9: the output table has one row per input product, in input order, with
\* every input column unchanged and the one column mapped_classifications
\* added; and on a products table of zero rows classify_products raises
\* nothing and makes no progress update after st.progress(0).
C9_OnlyAppends ==
    /\ HasOutput =>
         /\ Len(output_df.rows) = Len(product_file.df.rows)
         /\ output_df.columns
              = product_file.df.columns \cup {"mapped_classifications"}
         /\ \A i \in 1..Len(product_file.df.rows) :
              \A c \in product_file.df.columns \ {"mapped_classifications"} :
                  output_df.rows[i][c] = product_file.df.rows[i][c]
    /\ (product_file # None /\ product_file.df.rows = << >>) =>
         /\ exception.at # "classify_products"
         /\ progress \in {<< >>, <<<<0, 1>>>>}
         /\ HasOutput => output_df.rows = << >>

\* C9 witness: an output of two rows whose titles differ.
C9_Witness ==
    /\ pc = "classified"
    /\ Len(output_df.rows) = 2
    /\ output_df.rows[1]["TITLE"] # output_df.rows[2]["TITLE"]
    /\ output_df.rows[1]["mapped_classifications"] = Str(<< >>)

\* The indices below k at which the progress bar is due: 0, every multiple of
\* ProgressEvery, and the last index n - 1.
DueBelow(k, n) ==
    {i \in 0..(k - 1) : i = 0 \/ i % ProgressEvery = 0 \/ i = n - 1}

\* C10: the progress bar starts at 0; after idx products the updates made
\* are exactly (i+1)/n for the due indices i below idx, in increasing order
\* and within (0, 1]; once the last of n >= 1 products is classified the last
\* value reported is n/n = 1.  A value is <<numerator, denominator>>.
C10_Progress ==
    LET n == Len(titles.val) IN
    progress # << >> =>
        /\ progress[1] = <<0, 1>>
        /\ \A j \in 2..Len(progress) :
              /\ progress[j][2] = n
              /\ 0 < progress[j][1] /\ progress[j][1] <= n
              /\ j > 2 => progress[j - 1][1] < progress[j][1]
        /\ {progress[j][1] - 1 : j \in 2..Len(progress)} = DueBelow(idx, n)
        /\ Len(progress) = 1 + Cardinality(DueBelow(idx, n))
        /\ (idx = n /\ n >= 1) => progress[Len(progress)] = <<n, n>>

\* C10 witness: a table of more than ProgressEvery + 1 products classified,
\* with the updates at indices 0, ProgressEvery and the last.
C10_Witness ==
    /\ pc = "classified"
    /\ Len(titles.val) = ProgressEvery + 2
    /\ progress = <<<<0, 1>>, <<1, ProgressEvery + 2>>,
                    <<ProgressEvery + 1, ProgressEvery + 2>>,
                    <<ProgressEvery + 2, ProgressEvery + 2>>>>

====
